---- MODULE Spec2Model ----
(***************************************************************************)
(* Model of genc.py, the C++ project scaffolder: the name deriver          *)
(* (Project.name_for_folder), the steps of Generate.go and the __main__    *)
(* block, over an abstract file system rooted at the target directory.     *)
(*                                                                         *)
(* A path is a tuple of components relative to the target directory        *)
(* (<<>> is the target itself); a character is a one-character string; a  *)
(* project name is a sequence of characters.                               *)
(***************************************************************************)
EXTENDS FiniteSets, Integers, Sequences, TLC

(***************************************************************************)
(* Bounds                                                                  *)
(***************************************************************************)
\* longest project name enumerated by the name-deriver specification
MaxNameLen == 3

(***************************************************************************)
(* Characters.  [A-Z] of the regular expression is the ASCII range; the    *)
(* str.lower() and str.isupper() of Python are Unicode-aware, so the       *)
(* alphabet has one uppercase letter outside the ASCII range.              *)
(***************************************************************************)
UpperSeq ==
    <<"A","B","C","D","E","F","G","H","I","J","K","L","M",
      "N","O","P","Q","R","S","T","U","V","W","X","Y","Z","É">>

LowerSeq ==
    <<"a","b","c","d","e","f","g","h","i","j","k","l","m",
      "n","o","p","q","r","s","t","u","v","w","x","y","z","é">>

\* the character class [A-Z] of the pattern in name_for_folder
AsciiUpper == { UpperSeq[k] : k \in 1..26 }

\* str.isupper() on one character
IsUpper(c) == \E k \in 1..Len(UpperSeq) : UpperSeq[k] = c

\* str.lower() on one character
LowerChar(c) ==
    IF IsUpper(c)
    THEN LowerSeq[CHOOSE k \in 1..Len(UpperSeq) : UpperSeq[k] = c]
    ELSE c

\* str.lower() on a string
str_lower(s) == [k \in 1..Len(s) |-> LowerChar(s[k])]

\* the zero-width matches of (?<!^)(?=[A-Z]) in s: position p is the gap
\* before character p+1; (?<!^) excludes the start of the string and
\* (?=[A-Z]) asks for an ASCII capital right after the gap
MatchPositions(s) ==
    { p \in 0..(Len(s) - 1) : p # 0 /\ s[p + 1] \in AsciiUpper }

\* re.sub(pattern, '_', s) for a zero-width pattern: every character is
\* kept, and "_" is put into each matched gap
RECURSIVE re_sub_from(_, _, _)
re_sub_from(s, p, matches) ==
    IF p > Len(s) THEN <<>>
    ELSE (IF (p - 1) \in matches THEN <<"_">> ELSE <<>>)
         \o <<s[p]>> \o re_sub_from(s, p + 1, matches)

re_sub(s) == re_sub_from(s, 1, MatchPositions(s))

\* Project.name_for_folder
name_for_folder(name) == str_lower(re_sub(name))

\* the f-string interpolation of a character sequence into a path or text
RECURSIVE Str(_)
Str(s) == IF s = <<>> THEN "" ELSE Head(s) \o Str(Tail(s))

(***************************************************************************)
(* Paths, templates and the lists the steps iterate over                   *)
(***************************************************************************)
Parent(p) == SubSeq(p, 1, Len(p) - 1)

\* what the run records for a directory it made
DirMark == [tmpl |-> "dir", arg |-> ""]

\* the content of a file that was there before the run
PriorContent == [tmpl |-> "prior", arg |-> ""]

\* a file that open(.., 'w') created or truncated and write() did not fill
EmptyContent == [tmpl |-> "empty", arg |-> ""]

\* the templates that hold the #PROJECT_NAME# placeholder
WithMarker ==
    { "SourceFiles.app", "SourceFiles.src_message_cpp", "SourceFiles.tests_unit",
      "SourceFiles.tests_benchmark", "CmakeFiles.top_level" }

\* content.replace('#PROJECT_NAME#', value)
Replace(tmpl, value) ==
    [tmpl |-> tmpl, arg |-> IF tmpl \in WithMarker THEN value ELSE ""]

\* a template written as it is
Plain(tmpl) == [tmpl |-> tmpl, arg |-> ""]

\* the add_subdirectory(...) lines of a CMake template
AddSubdirs(tmpl) ==
    CASE tmpl = "CmakeFiles.top_level" -> {"app", "extern", "include", "src", "tests"}
      [] tmpl = "CmakeFiles.tests"     -> {"benchmark", "unit"}
      [] tmpl = "CmakeFiles.extern"    -> {"googletest", "benchmark"}
      [] OTHER                         -> {}

\* the folders list of build_folder_structure, tok = name_for_folder
FoldersUnitFirst(tok) ==
    << <<"app">>, <<"docs">>, <<"extern">>, <<"include">>, <<"include", tok>>,
       <<"src">>, <<"tests", "unit">>, <<"tests", "benchmark">>, <<"tests">> >>

Folders(tok) ==
    << <<"app">>, <<"docs">>, <<"extern">>, <<"include">>, <<"include", tok>>,
       <<"src">>, <<"tests">>, <<"tests", "benchmark">>, <<"tests", "unit">> >>

\* the source_files list of create_source_files, already rendered
SourceFileList(tok) ==
    << [path |-> <<"app", "main.cpp">>,
        content |-> Replace("SourceFiles.app", tok)],
       [path |-> <<"include", tok, "message.h">>,
        content |-> Replace("SourceFiles.include_message_h", tok)],
       [path |-> <<"src", "message.cpp">>,
        content |-> Replace("SourceFiles.src_message_cpp", tok)],
       [path |-> <<"tests", "unit", "message_tests.cpp">>,
        content |-> Replace("SourceFiles.tests_unit", tok)],
       [path |-> <<"tests", "benchmark", "message_perf.cpp">>,
        content |-> Replace("SourceFiles.tests_benchmark", tok)] >>

\* the cmake_files list of build_cmake_structure; name is Project.name
CmakeFileList(name) ==
    << [path |-> <<"CMakeLists.txt">>,
        content |-> Replace("CmakeFiles.top_level", name)],
       [path |-> <<"app", "CMakeLists.txt">>,
        content |-> Plain("CmakeFiles.app")],
       [path |-> <<"include", "CMakeLists.txt">>,
        content |-> Plain("CmakeFiles.includes")],
       [path |-> <<"src", "CMakeLists.txt">>,
        content |-> Plain("CmakeFiles.src")],
       [path |-> <<"tests", "CMakeLists.txt">>,
        content |-> Plain("CmakeFiles.tests")],
       [path |-> <<"extern", "CMakeLists.txt">>,
        content |-> Plain("CmakeFiles.extern")],
       [path |-> <<"tests", "CMakeLists.txt">>,
        content |-> Plain("CmakeFiles.tests")],
       [path |-> <<"tests", "unit", "CMakeLists.txt">>,
        content |-> Plain("CmakeFiles.tests_unit")],
       [path |-> <<"tests", "benchmark", "CMakeLists.txt">>,
        content |-> Plain("CmakeFiles.tests_benchmark")] >>

\* the files list of add_supporting_files
SupportFileList ==
    << [path |-> <<"readme.md">>,     content |-> Plain("SupportFiles.readme")],
       [path |-> <<".clang-format">>, content |-> Plain("SupportFiles.clang_format")] >>

\* the two Submodule.add calls of clone_external_dependencies
GoogleTest ==
    [name |-> "googletest", path |-> <<"extern", "googletest">>,
     url |-> "https://github.com/google/googletest.git"]

GoogleBenchmark ==
    [name |-> "benchmark", path |-> <<"extern", "benchmark">>,
     url |-> "https://github.com/google/benchmark.git"]

\* the calls of Generate.go, in order
GoRepoFirst ==
    << "initialize_git_repo", "initialize_folder_structure",
       "build_folder_structure", "create_source_files", "build_cmake_structure",
       "clone_external_dependencies", "add_supporting_files" >>

Go ==
    << "initialize_folder_structure", "initialize_git_repo",
       "build_folder_structure", "create_source_files", "build_cmake_structure",
       "clone_external_dependencies", "add_supporting_files" >>

(***************************************************************************)
(* Inputs                                                                  *)
(***************************************************************************)
\* the characters the enumerated names are made of
Alphabet == {"a", "B", "C", "É", "_"}

RECURSIVE SeqsUpTo(_)
SeqsUpTo(n) ==
    IF n = 0 THEN { <<>> }
    ELSE SeqsUpTo(n - 1) \cup
         { Append(s, c) : s \in { t \in SeqsUpTo(n - 1) : Len(t) = n - 1 }, c \in Alphabet }

MyProject == <<"M","y","P","r","o","j","e","c","t">>
ABC       == <<"A","B","C">>
FooBar    == <<"F","o","o","B","a","r">>

\* the names given to the name deriver alone
DeriverNames == (SeqsUpTo(MaxNameLen) \ { <<>> }) \cup {MyProject, ABC, FooBar}

\* the names given to whole runs
RunNames == {FooBar, <<"a","É">>}

\* what the target directory may hold before the run: directories below the
\* target and files with their content
PriorTrees ==
    { [dirs |-> {}, files |-> <<>>],
      [dirs |-> {}, files |-> (<<"junk.txt">> :> PriorContent)],
      [dirs |-> {<<"app">>},
       files |-> (<<"app", "main.cpp">> :> PriorContent) @@ (<<"readme.md">> :> PriorContent)] }

\* parser.parse_args(): both store_true options with default=True give True
\* whether or not the option is on the command line; -D gives delete
parse_args(name, t, b, D) ==
    [name |-> name, tests |-> TRUE, benchmark |-> TRUE, delete |-> D]

\* an args object handed to Project(...) by an importing caller
Namespace(name, t, b, D) ==
    [name |-> name, tests |-> t, benchmark |-> b, delete |-> D]

(***************************************************************************)
(* State                                                                   *)
(***************************************************************************)
VARIABLES
    args,        \* the args object behind Project: name, tests, benchmark, delete
    entry,       \* "main": the script was run; "import": a caller made Generate
    parentOk,    \* the directory that is to hold the target exists
    targetKind,  \* what is at the target path: "absent", "dir", "file", "link"
    dirs,        \* the directories at and below the target
    files,       \* the files below the target, path -> content
    fs0,         \* targetKind, dirs and files when the run started
    written,     \* what this run made: path -> DirMark or the content written
    repo,        \* Generate._repo: init (Repo.init done) and the branch
    submodules,  \* the submodules registered in the repository
    ip,          \* the call of Generate.go that is next or running, 1..8
    i,           \* the position in the list the running call iterates over
    status,      \* "start", "running", "raised", "returned"
    exc,         \* the exception that left go(), or "none"
    out,         \* what was printed, in order
    exitStatus,  \* the exit status of the process, -1 while it runs
    called,      \* the methods go() has entered, in order
    completed,   \* the methods that have returned to go(), in order
    lastOp,      \* the last mkdir or open the run issued
    derived      \* the name deriver alone: the token once it is computed

fsVars   == <<targetKind, dirs, files>>
inVars   == <<args, entry, parentOk, fs0, derived>>
gitVars  == <<repo, submodules>>
mainVars == <<out, exitStatus>>
vars == <<args, entry, parentOk, targetKind, dirs, files, fs0, written, repo,
          submodules, ip, i, status, exc, out, exitStatus, called, completed,
          lastOp, derived>>

NoOp == [op |-> "none", path |-> <<>>, parentExists |-> TRUE, parentByRun |-> TRUE]

Token == Str(name_for_folder(args.name))

\* os.path.isdir follows symbolic links
isdir == targetKind \in {"dir", "link"}

Running(m) == status = "running" /\ ip \in 1..Len(Go) /\ Go[ip] = m

\* an exception leaves the running method and go()
Raise(e) ==
    /\ status' = "raised"
    /\ exc' = e
    /\ UNCHANGED <<ip, i, completed>>

\* the running method returns to go()
Return(m) ==
    /\ ip' = ip + 1
    /\ i' = 1
    /\ completed' = Append(completed, m)
    /\ UNCHANGED <<status, exc>>

Enter(m) == called' = IF i = 1 THEN Append(called, m) ELSE called

Init ==
    /\ entry \in {"main", "import"}
    /\ \E n \in RunNames, t \in BOOLEAN, b \in BOOLEAN, D \in BOOLEAN :
          args = IF entry = "main" THEN parse_args(n, t, b, D) ELSE Namespace(n, t, b, D)
    /\ targetKind \in {"absent", "dir", "file", "link"}
    /\ parentOk \in BOOLEAN
    /\ targetKind # "absent" => parentOk
    /\ \E tree \in PriorTrees :
          /\ targetKind # "dir" => tree.dirs = {} /\ tree.files = <<>>
          /\ dirs = IF targetKind = "dir" THEN tree.dirs \cup { <<>> } ELSE {}
          /\ files = tree.files
    /\ fs0 = [kind |-> targetKind, dirs |-> dirs, files |-> files]
    /\ written = <<>>
    /\ repo = [init |-> FALSE, branch |-> "none"]
    /\ submodules = {}
    /\ ip = 1
    /\ i = 1
    /\ status = IF entry = "main" THEN "start" ELSE "running"
    /\ exc = "none"
    /\ out = <<>>
    /\ exitStatus = -1
    /\ called = <<>>
    /\ completed = <<>>
    /\ lastOp = NoOp
    /\ derived = [set |-> FALSE, val |-> <<>>]

(***************************************************************************)
(* __main__ before go(): g.print_summary_pre()                             *)
(***************************************************************************)
print_summary_pre ==
    /\ entry = "main"
    /\ status = "start"
    /\ out' = Append(out, "Pre-action summary of options")
    /\ status' = "running"
    /\ UNCHANGED <<inVars, fsVars, written, gitVars, ip, i, exc, exitStatus,
                   called, completed, lastOp>>

(***************************************************************************)
(* Generate.initialize_folder_structure                                    *)
(***************************************************************************)
\* the entries below the target: rmtree that fails may leave any of them,
\* each with the directories above it
Entries == (dirs \ { <<>> }) \cup DOMAIN files

Leftovers ==
    { S \in SUBSET Entries : \A p \in S : Len(p) > 1 => Parent(p) \in S }

\* the delete_existing test that guards shutil.rmtree
MayDeleteAlways == TRUE

MayDeleteNever == FALSE

MayDelete == args.delete

initialize_folder_structure ==
    /\ Running("initialize_folder_structure")
    /\ Enter("initialize_folder_structure")
    /\ UNCHANGED <<inVars, gitVars, exitStatus>>
    /\ \/ \* the directory exists and is not to be deleted
          /\ isdir
          /\ ~MayDelete
          /\ out' = Append(out, "** Error: Directory already exists... aborting")
          /\ Raise("raise FileExistsError")
          /\ UNCHANGED <<fsVars, written, lastOp>>
       \/ \* shutil.rmtree refuses a symbolic link to a directory
          /\ isdir
          /\ MayDelete
          /\ targetKind = "link"
          /\ Raise("shutil.rmtree: OSError")
          /\ UNCHANGED <<fsVars, written, lastOp, out>>
       \/ \* shutil.rmtree fails on the way and leaves part of the tree
          /\ isdir
          /\ MayDelete
          /\ targetKind = "dir"
          /\ \E S \in Leftovers :
                /\ dirs' = { <<>> } \cup (S \cap dirs)
                /\ files' = [p \in S \cap DOMAIN files |-> files[p]]
          /\ Raise("shutil.rmtree: PermissionError")
          /\ UNCHANGED <<targetKind, written, lastOp, out>>
       \/ \* nothing to remove, or shutil.rmtree removed it: os.mkdir
          /\ ~isdir \/ (MayDelete /\ targetKind = "dir")
          /\ lastOp' = [op |-> "mkdir", path |-> <<>>,
                        parentExists |-> parentOk, parentByRun |-> FALSE]
          /\ IF targetKind = "file"
             THEN /\ Raise("os.mkdir: FileExistsError")
                  /\ UNCHANGED <<fsVars, written, out>>
             ELSE IF ~parentOk
             THEN /\ Raise("os.mkdir: FileNotFoundError")
                  /\ UNCHANGED <<fsVars, written, out>>
             ELSE \/ /\ targetKind' = "dir"
                     /\ dirs' = { <<>> }
                     /\ files' = <<>>
                     /\ written' = (<<>> :> DirMark) @@ written
                     /\ out' = Append(out, "! Info: Project directory created.")
                     /\ Return("initialize_folder_structure")
                  \/ /\ targetKind' = "absent"
                     /\ dirs' = {}
                     /\ files' = <<>>
                     /\ Raise("os.mkdir: PermissionError")
                     /\ UNCHANGED <<written, out>>

(***************************************************************************)
(* Generate.initialize_git_repo                                            *)
(***************************************************************************)
initialize_git_repo ==
    /\ Running("initialize_git_repo")
    /\ Enter("initialize_git_repo")
    /\ UNCHANGED <<inVars, mainVars, submodules, files, lastOp>>
    /\ IF targetKind \in {"file", "link"} \/ (targetKind = "absent" /\ ~parentOk)
       THEN /\ Raise("Repo.init: GitError")
            /\ UNCHANGED <<targetKind, dirs, written, repo>>
       ELSE \/ \* Repo.init fails
               /\ Raise("Repo.init: GitError")
               /\ UNCHANGED <<targetKind, dirs, written, repo>>
            \/ \* Repo.init (which makes the directory when it is absent)
               \* succeeds, then git.checkout(b='main') fails or succeeds
               /\ targetKind' = "dir"
               /\ dirs' = dirs \cup { <<>>, <<".git">> }
               /\ written' = (<<".git">> :> DirMark) @@ written
               /\ \/ /\ repo' = [init |-> TRUE, branch |-> "none"]
                     /\ Raise("git.checkout: GitCommandError")
                  \/ /\ repo' = [init |-> TRUE, branch |-> "main"]
                     /\ Return("initialize_git_repo")

(***************************************************************************)
(* os.mkdir and open(.., 'w') as the steps issue them                      *)
(***************************************************************************)
\* os.mkdir(p) inside a method m whose list has n entries, at position i
Mkdir(m, p, n, info) ==
    /\ lastOp' = [op |-> "mkdir", path |-> p,
                  parentExists |-> Parent(p) \in dirs,
                  parentByRun  |-> Parent(p) \in DOMAIN written]
    /\ IF p \in dirs \/ p \in DOMAIN files
       THEN /\ Raise("os.mkdir: FileExistsError")
            /\ UNCHANGED <<fsVars, written, out>>
       ELSE IF Parent(p) \notin dirs
       THEN /\ Raise("os.mkdir: FileNotFoundError")
            /\ UNCHANGED <<fsVars, written, out>>
       ELSE \/ /\ dirs' = dirs \cup {p}
               /\ written' = (p :> DirMark) @@ written
               /\ UNCHANGED <<targetKind, files>>
               /\ IF i = n
                  THEN /\ out' = Append(out, info)
                       /\ Return(m)
                  ELSE /\ i' = i + 1
                       /\ UNCHANGED <<out, ip, status, exc, completed>>
            \/ /\ Raise("os.mkdir: PermissionError")
               /\ UNCHANGED <<fsVars, written, out>>

\* with open(p, 'w') as w: w.write(c) inside a method m, at position i of n
WriteFile(m, p, c, n, info) ==
    /\ lastOp' = [op |-> "open", path |-> p,
                  parentExists |-> Parent(p) \in dirs,
                  parentByRun  |-> Parent(p) \in DOMAIN written]
    /\ IF Parent(p) \notin dirs
       THEN /\ Raise("open: FileNotFoundError")
            /\ UNCHANGED <<fsVars, written, out>>
       ELSE IF p \in dirs
       THEN /\ Raise("open: IsADirectoryError")
            /\ UNCHANGED <<fsVars, written, out>>
       ELSE \/ \* opened and written
               /\ files' = (p :> c) @@ files
               /\ written' = (p :> c) @@ written
               /\ UNCHANGED <<targetKind, dirs>>
               /\ IF i = n
                  THEN /\ out' = Append(out, info)
                       /\ Return(m)
                  ELSE /\ i' = i + 1
                       /\ UNCHANGED <<out, ip, status, exc, completed>>
            \/ \* open fails
               /\ Raise("open: PermissionError")
               /\ UNCHANGED <<fsVars, written, out>>
            \/ \* open creates or truncates the file, write fails
               /\ files' = (p :> EmptyContent) @@ files
               /\ written' = (p :> EmptyContent) @@ written
               /\ Raise("write: OSError")
               /\ UNCHANGED <<targetKind, dirs, out>>

(***************************************************************************)
(* Generate.build_folder_structure, one os.mkdir of the loop               *)
(***************************************************************************)
build_folder_structure ==
    /\ Running("build_folder_structure")
    /\ Enter("build_folder_structure")
    /\ UNCHANGED <<inVars, gitVars, exitStatus>>
    /\ Mkdir("build_folder_structure", Folders(Token)[i], Len(Folders(Token)),
             "! Info: Basic folder structure created.")

(***************************************************************************)
(* Generate.create_source_files, one open/write of the loop                *)
(***************************************************************************)
create_source_files ==
    /\ Running("create_source_files")
    /\ Enter("create_source_files")
    /\ UNCHANGED <<inVars, gitVars, exitStatus>>
    /\ WriteFile("create_source_files",
                 SourceFileList(Token)[i].path, SourceFileList(Token)[i].content,
                 Len(SourceFileList(Token)), "! Info: Source files created.")

(***************************************************************************)
(* Generate.build_cmake_structure, one open/write of the loop              *)
(***************************************************************************)
build_cmake_structure ==
    /\ Running("build_cmake_structure")
    /\ Enter("build_cmake_structure")
    /\ UNCHANGED <<inVars, gitVars, exitStatus>>
    /\ WriteFile("build_cmake_structure",
                 CmakeFileList(Str(args.name))[i].path,
                 CmakeFileList(Str(args.name))[i].content,
                 Len(CmakeFileList(Str(args.name))), "! Info: CMake Files created.")

(***************************************************************************)
(* Generate.clone_external_dependencies, one of its two if statements      *)
(***************************************************************************)
Dependencies == <<GoogleTest, GoogleBenchmark>>

\* the condition of the k-th if statement
WantsDependencyAlways(k) == TRUE

WantsDependency(k) == IF k = 1 THEN args.tests ELSE args.benchmark

GitModules == [tmpl |-> ".gitmodules", arg |-> ""]

clone_external_dependencies ==
    /\ Running("clone_external_dependencies")
    /\ Enter("clone_external_dependencies")
    /\ UNCHANGED <<inVars, exitStatus, targetKind, lastOp, repo>>
    /\ IF ~WantsDependency(i)
       THEN /\ UNCHANGED <<dirs, files, written, submodules, out>>
            /\ IF i = Len(Dependencies)
               THEN Return("clone_external_dependencies")
               ELSE /\ i' = i + 1
                    /\ UNCHANGED <<ip, status, exc, completed>>
       ELSE IF ~repo.init
       THEN /\ Raise("Submodule.add: AttributeError")
            /\ UNCHANGED <<dirs, files, written, submodules, out>>
       ELSE \/ \* Submodule.add clones and registers the submodule
               /\ submodules' = submodules \cup { Dependencies[i] }
               /\ dirs' = dirs \cup { Parent(Dependencies[i].path), Dependencies[i].path }
               /\ files' = (<<".gitmodules">> :> GitModules) @@ files
               /\ written' = (Dependencies[i].path :> DirMark)
                             @@ (<<".gitmodules">> :> GitModules) @@ written
               /\ out' = Append(out, "! Info: Cloned " \o Dependencies[i].name)
               /\ IF i = Len(Dependencies)
                  THEN Return("clone_external_dependencies")
                  ELSE /\ i' = i + 1
                       /\ UNCHANGED <<ip, status, exc, completed>>
            \/ \* Submodule.add fails (network, git)
               /\ Raise("Submodule.add: GitError")
               /\ UNCHANGED <<dirs, files, written, submodules, out>>

(***************************************************************************)
(* Generate.add_supporting_files, one open/write of the loop               *)
(***************************************************************************)
add_supporting_files ==
    /\ Running("add_supporting_files")
    /\ Enter("add_supporting_files")
    /\ UNCHANGED <<inVars, gitVars, exitStatus>>
    /\ WriteFile("add_supporting_files",
                 SupportFileList[i].path, SupportFileList[i].content,
                 Len(SupportFileList), "! Info: Supporting files created.")

(***************************************************************************)
(* Generate.go returns after its last call                                 *)
(***************************************************************************)
go_return ==
    /\ status = "running"
    /\ ip = Len(Go) + 1
    /\ status' = "returned"
    /\ UNCHANGED <<inVars, fsVars, written, gitVars, mainVars, ip, i, exc,
                   called, completed, lastOp>>

(***************************************************************************)
(* __main__ after go(): the try statement falls through, or its except     *)
(* clause prints the exception; either way the script runs to its end      *)
(***************************************************************************)
main_end ==
    /\ entry = "main"
    /\ status = "returned"
    /\ exitStatus = -1
    /\ exitStatus' = 0
    /\ UNCHANGED <<inVars, fsVars, written, gitVars, ip, i, status, exc, out,
                   called, completed, lastOp>>

main_except_cleanup ==
    /\ entry = "main"
    /\ status = "raised"
    /\ exitStatus = -1
    /\ out' = Append(out, "Exiting with error. Project was not fully created.")
    /\ exitStatus' = 0
    /\ targetKind' = IF written = <<>> THEN targetKind ELSE "absent"
    /\ dirs' = IF written = <<>> THEN dirs ELSE {}
    /\ files' = IF written = <<>> THEN files ELSE <<>>
    /\ UNCHANGED <<inVars, written, gitVars, ip, i, status, exc,
                   called, completed, lastOp>>

main_except ==
    /\ entry = "main"
    /\ status = "raised"
    /\ exitStatus = -1
    /\ out' = Append(out, "Exiting with error. Project was not fully created.")
    /\ exitStatus' = 0
    /\ UNCHANGED <<inVars, fsVars, written, gitVars, ip, i, status, exc,
                   called, completed, lastOp>>

Next ==
    \/ print_summary_pre
    \/ initialize_folder_structure
    \/ initialize_git_repo
    \/ build_folder_structure
    \/ create_source_files
    \/ build_cmake_structure
    \/ clone_external_dependencies
    \/ add_supporting_files
    \/ go_return
    \/ main_end
    \/ main_except

Spec == Init /\ [][Next]_vars

(***************************************************************************)
(* The name deriver alone: Project(args).name_for_folder for each name     *)
(***************************************************************************)
InitName ==
    /\ entry = "import"
    /\ \E n \in DeriverNames : args = Namespace(n, TRUE, TRUE, FALSE)
    /\ targetKind = "absent"
    /\ parentOk = TRUE
    /\ dirs = {}
    /\ files = <<>>
    /\ fs0 = [kind |-> "absent", dirs |-> {}, files |-> <<>>]
    /\ written = <<>>
    /\ repo = [init |-> FALSE, branch |-> "none"]
    /\ submodules = {}
    /\ ip = 1
    /\ i = 1
    /\ status = "property"
    /\ exc = "none"
    /\ out = <<>>
    /\ exitStatus = -1
    /\ called = <<>>
    /\ completed = <<>>
    /\ lastOp = NoOp
    /\ derived = [set |-> FALSE, val |-> <<>>]

get_name_for_folder ==
    /\ status = "property"
    /\ ~derived.set
    /\ derived' = [set |-> TRUE, val |-> name_for_folder(args.name)]
    /\ UNCHANGED <<args, entry, parentOk, fs0, fsVars, written, gitVars, mainVars,
                   ip, i, status, exc, called, completed, lastOp>>

NextName == get_name_for_folder

SpecName == InitName /\ [][NextName]_vars

(***************************************************************************)
(* Properties                                                              *)
(***************************************************************************)
IsPrefix(a, b) == Len(a) <= Len(b) /\ a = SubSeq(b, 1, Len(a))

\* the planned directories and the generated files, as the specification
\* lists them
PlannedDirs ==
    { <<"app">>, <<"docs">>, <<"extern">>, <<"include">>, <<"include", Token>>,
      <<"src">>, <<"tests">>, <<"tests", "benchmark">>, <<"tests", "unit">> }

CoreSourceFiles ==
    { <<"app", "main.cpp">>, <<"include", Token, "message.h">>, <<"src", "message.cpp">> }

UnitTestFile  == <<"tests", "unit", "message_tests.cpp">>
BenchmarkFile == <<"tests", "benchmark", "message_perf.cpp">>

BuildFiles ==
    { <<"CMakeLists.txt">>, <<"app", "CMakeLists.txt">>, <<"include", "CMakeLists.txt">>,
      <<"src", "CMakeLists.txt">>, <<"tests", "CMakeLists.txt">>,
      <<"extern", "CMakeLists.txt">>, <<"tests", "unit", "CMakeLists.txt">>,
      <<"tests", "benchmark", "CMakeLists.txt">> }

SupportFiles == { <<"readme.md">>, <<".clang-format">> }

\* a file the run generated: present, and not with content from before
Generated(p) ==
    p \in DOMAIN files /\ p \in DOMAIN written /\ files[p] # PriorContent

CompleteTree ==
    /\ targetKind = "dir"
    /\ \A d \in PlannedDirs \cup { <<>> } : d \in dirs /\ d \in DOMAIN written
    /\ \A f \in CoreSourceFiles \cup {UnitTestFile, BenchmarkFile}
                 \cup BuildFiles \cup SupportFiles : Generated(f)

\* nothing that was at the target before the run is still there
PriorGone ==
    /\ targetKind \in {"absent", "dir"}
    /\ \A d \in dirs : d \in DOMAIN written
    /\ \A f \in DOMAIN files : f \in DOMAIN written

----------------------------------------------------------------------------
\* C1: for every non-empty name, name_for_folder is the name with one
\* underscore put before every uppercase letter that is not the first
\* character, then lowercased; "MyProject" gives "my_project", "ABC" gives
\* "a_b_c", and a name with no uppercase letter after the first position is
\* only lowercased.
RECURSIVE C1_InsertFrom(_, _)
C1_InsertFrom(s, p) ==
    IF p > Len(s) THEN <<>>
    ELSE (IF p > 1 /\ IsUpper(s[p]) THEN <<"_">> ELSE <<>>)
         \o <<s[p]>> \o C1_InsertFrom(s, p + 1)

C1_Reference(s) == str_lower(C1_InsertFrom(s, 1))

C1_NameForFolderIsReference ==
    derived.set =>
        /\ derived.val = C1_Reference(args.name)
        /\ args.name = MyProject => Str(derived.val) = "my_project"
        /\ args.name = ABC => Str(derived.val) = "a_b_c"
        /\ (\A k \in 2..Len(args.name) : ~IsUpper(args.name[k]))
              => derived.val = str_lower(args.name)

----------------------------------------------------------------------------
\* C2: when the target path exists at the start and the delete flag is
\* false, the run aborts in initialize_folder_structure before any write:
\* the target and its contents stay as they were, nothing is created, and
\* no later step (repository, folders, files, submodules) runs.
C2_ExistingTargetUntouched ==
    (fs0.kind # "absent" /\ ~args.delete) =>
        /\ targetKind = fs0.kind
        /\ dirs = fs0.dirs
        /\ files = fs0.files
        /\ written = <<>>
        /\ ~repo.init
        /\ submodules = {}
        /\ completed = <<>>
        /\ called \in { <<>>, <<"initialize_folder_structure">> }
        /\ status # "returned"
        /\ called # <<>> => status = "raised"

C2_Witness ==
    /\ fs0.kind = "dir"
    /\ fs0.files # <<>>
    /\ ~args.delete
    /\ status = "raised"
    /\ called = <<"initialize_folder_structure">>

----------------------------------------------------------------------------
----------------------------------------------------------------------------
\* C4: go() passes through Init, FolderReady, RepoReady, StructureReady,
\* SourceReady, BuildFilesReady, DependenciesReady, SupportFilesReady, Done
\* in exactly this order: a step starts only when the one before it has
\* returned, none is skipped, repeated or reordered, and the repository is
\* made after the base directory and before any submodule is added.
C4_Steps ==
    << "initialize_folder_structure", "initialize_git_repo",
       "build_folder_structure", "create_source_files", "build_cmake_structure",
       "clone_external_dependencies", "add_supporting_files" >>

C4_States ==
    << "Init", "FolderReady", "RepoReady", "StructureReady", "SourceReady",
       "BuildFilesReady", "DependenciesReady", "SupportFilesReady" >>

C4_State ==
    IF status = "raised" THEN "Aborted"
    ELSE IF status = "returned" THEN "Done"
    ELSE C4_States[Len(completed) + 1]

C4_Edges ==
    { <<C4_States[k], C4_States[k + 1]>> : k \in 1..7 }
        \cup { <<"SupportFilesReady", "Done">> }
        \cup { <<C4_States[k], "Aborted">> : k \in 1..7 }

\* made by this run
C4_Made(p) == p \in DOMAIN written

C4_InOrder ==
    /\ IsPrefix(completed, C4_Steps)
    /\ IsPrefix(called, C4_Steps)
    /\ Len(called) \in { Len(completed), Len(completed) + 1 }
    /\ status = "returned" => completed = C4_Steps
    /\ (<<>> \in DOMAIN written) <=> Len(completed) >= 1
    /\ repo.init => <<>> \in DOMAIN written
    /\ Len(completed) >= 2 => repo.init /\ repo.branch = "main"
    /\ (\E d \in PlannedDirs : C4_Made(d)) => Len(completed) >= 2
    /\ Len(completed) >= 3 => \A d \in PlannedDirs : C4_Made(d) /\ d \in dirs
    /\ (\E f \in CoreSourceFiles : C4_Made(f)) => Len(completed) >= 3
    /\ Len(completed) >= 4 => \A f \in CoreSourceFiles : C4_Made(f) /\ f \in DOMAIN files
    /\ (\E f \in BuildFiles : C4_Made(f)) => Len(completed) >= 4
    /\ Len(completed) >= 5 => \A f \in BuildFiles : C4_Made(f) /\ f \in DOMAIN files
    /\ submodules # {} => Len(completed) >= 5 /\ repo.init /\ repo.branch = "main"
    /\ (\E f \in SupportFiles : C4_Made(f)) => Len(completed) >= 6
    /\ Len(completed) >= 7 => \A f \in SupportFiles : C4_Made(f) /\ f \in DOMAIN files

C4_StrictSequence ==
    /\ []C4_InOrder
    /\ [][C4_State' = C4_State \/ <<C4_State, C4_State'>> \in C4_Edges]_vars

C4_Witness ==
    /\ status = "returned"
    /\ completed = C4_Steps
    /\ Cardinality(submodules) = 2

----------------------------------------------------------------------------
\* C5: a failing step ends the run in Aborted: no later step and no further
\* write of the failing step happens, nothing is retried or cleaned up, and
\* what the run wrote before the failure is on disk as it was written.
C5_WrittenOnDisk ==
    \A p \in DOMAIN written :
        IF written[p] = DirMark THEN p \in dirs
        ELSE p \in DOMAIN files /\ files[p] = written[p]

C5_AbortKeepsWhatWasWritten ==
    /\ [](exc # "none" <=> status = "raised")
    /\ [](status = "raised" =>
            /\ C5_WrittenOnDisk
            /\ Len(called) = Len(completed) + 1
            /\ ip = Len(called))
    /\ [][status = "raised" =>
            /\ status' = "raised"
            /\ UNCHANGED <<fsVars, written, gitVars, ip, i, exc, called,
                           completed, lastOp>>]_vars

C5_Witness ==
    /\ status = "raised"
    /\ exitStatus = 0
    /\ called[Len(called)] = "create_source_files"
    /\ i = 3
    /\ <<"app", "main.cpp">> \in DOMAIN files
    /\ <<"src", "message.cpp">> \notin DOMAIN files

----------------------------------------------------------------------------
\* C6: on a failure of a step the process prints the pre-action summary,
\* then the error, and exits with a non-zero status; a run in which every
\* step succeeds exits with status zero.
C6_ExitStatusTellsFailure ==
    (entry = "main" /\ exitStatus # -1) =>
        IF exc # "none"
        THEN /\ exitStatus # 0
             /\ Len(out) >= 2
             /\ out[1] = "Pre-action summary of options"
             /\ out[Len(out)] = "Exiting with error. Project was not fully created."
        ELSE exitStatus = 0

----------------------------------------------------------------------------
\* C7: after a successful run the unit-test file is present exactly when
\* the include-tests flag is set, the benchmark file exactly when the
\* include-benchmark flag is set, and the header, the implementation and
\* the CLI entry point are present whatever the flags.
C7_OptionalTestFiles ==
    status = "returned" =>
        /\ UnitTestFile \in DOMAIN files <=> args.tests
        /\ BenchmarkFile \in DOMAIN files <=> args.benchmark
        /\ \A f \in CoreSourceFiles : f \in DOMAIN files

----------------------------------------------------------------------------
\* C8: after a successful run googletest is registered at extern/googletest
\* exactly when the include-tests flag is set and benchmark at
\* extern/benchmark exactly when the include-benchmark flag is set; the two
\* flags act independently: both set gives two entries, both clear none.
C8_Registered(n) ==
    \E sm \in submodules : sm.name = n /\ sm.path = <<"extern", n>>

C8_SubmodulesFollowFlags ==
    status = "returned" =>
        /\ C8_Registered("googletest") <=> args.tests
        /\ C8_Registered("benchmark") <=> args.benchmark
        /\ Cardinality(submodules) =
              (IF args.tests THEN 1 ELSE 0) + (IF args.benchmark THEN 1 ELSE 0)
        /\ \A sm \in submodules : sm.path \in dirs

C8_Witness ==
    /\ status = "returned"
    /\ ~args.tests
    /\ args.benchmark
    /\ Cardinality(submodules) = 1
    /\ C8_Registered("benchmark")

----------------------------------------------------------------------------
\* C9: a directory is made only when its parent exists, and every file of
\* create_source_files, build_cmake_structure and add_supporting_files is
\* written into a directory that an earlier step of the same run made: no
\* mkdir below the target and no open ever aims at a directory that is
\* absent or that the run did not make.
C9_ParentBeforeChild ==
    /\ lastOp.op \in {"mkdir", "open"} /\ lastOp.path # <<>> =>
          lastOp.parentExists /\ lastOp.parentByRun
    /\ <<>> \in DOMAIN written => parentOk
    /\ \A p \in DOMAIN written :
          p # <<>> => /\ Parent(p) \in DOMAIN written
                      /\ written[Parent(p)] = DirMark
                      /\ Parent(p) \in PlannedDirs \cup { <<>> }

C9_Witness ==
    /\ lastOp.op = "open"
    /\ lastOp.path = <<"include", Token, "message.h">>
    /\ lastOp.path \in DOMAIN files
    /\ <<"include", Token>> \in DOMAIN written

----------------------------------------------------------------------------
\* C10: after a successful run, whatever the two flags are, every directory
\* that an add_subdirectory line of a generated CMakeLists.txt names exists
\* in the tree; extern/CMakeLists.txt names googletest and benchmark only
\* when that submodule was added, and tests/CMakeLists.txt names unit and
\* benchmark, which exist and hold their own CMakeLists.txt.
C10_AddSubdirectoryTargetsExist ==
    status = "returned" =>
        /\ \A f \in BuildFiles :
              f \in DOMAIN files =>
                 \A sub \in AddSubdirs(files[f].tmpl) : Append(Parent(f), sub) \in dirs
        /\ \A sub \in {"unit", "benchmark"} :
              /\ <<"tests", sub>> \in dirs
              /\ <<"tests", sub, "CMakeLists.txt">> \in DOMAIN files

====
